---- MODULE Spec2Model ----
(***************************************************************************)
(* Model of the two X-Pack SQL request builders of the elastic client:     *)
(*   XPackSqlQueryService      (src/xpack_sql_query.go)                    *)
(*   XPackSqlTranslateService  (src/unnamed/part_000)                      *)
(* One builder instance is modelled; svc says which of the two types it    *)
(* is.  The struct fields are the variables, every method is an action,    *)
(* and last records the most recent call: its name, its argument, what it  *)
(* returned and what it did to its collaborators (the filter predicates'   *)
(* Source() and client.PerformRequest / json.Unmarshal).                   *)
(*                                                                         *)
(* Go values: nil is Nil, an error is Error(msg), a *bool is Nil or        *)
(* Ptr(b), a map[string]... is a function on a set of strings, a           *)
(* []interface{} is Slice(seq), a []string / []Query is a sequence.        *)
(***************************************************************************)
EXTENDS Integers, Sequences, FiniteSets, TLC

VARIABLES svc, pretty, human, errorTrace, filterPath, headers,
          filterClauses, fetchSize, cursor, sql, requestTimeout,
          pageTimeout, timeZone, fieldMultiValueLeniency, last

transportFields == <<pretty, human, errorTrace, filterPath, headers>>

bodyFields == <<filterClauses, fetchSize, cursor, sql, requestTimeout,
                pageTimeout, timeZone, fieldMultiValueLeniency>>

fields == <<svc, transportFields, bodyFields>>

vars == <<fields, last>>

(***************************************************************************)
(* Bounds.                                                                 *)
(***************************************************************************)
\* longest list of attached filter predicates
MaxFilters == 2

\* longest filter_path list
MaxPath == 2

\* most values held under one header name
MaxHeaderVals == 2

(***************************************************************************)
(* Go values.                                                              *)
(***************************************************************************)
Nil == [nil |-> TRUE]

Error(msg) == [error |-> msg]

Ptr(b) == [ptr |-> b]

Slice(seq) == [slice |-> seq]

EmptyMap == << >>

\* m[k] = v on a Go map
Put(m, k, v) == [x \in (DOMAIN m) \cup {k} |-> IF x = k THEN v ELSE m[x]]

\* sequences over S of length 0..n
SeqUpTo(S, n) == UNION {[1..k -> S] : k \in 0..n}

(***************************************************************************)
(* Inputs the caller may pass.                                             *)
(***************************************************************************)
SqlValues == {"", "SELECT * FROM t"}

CursorValues == {"", "abc123"}

FetchSizeValues == {-1, 0, 5}

TimeoutValues == {"", "90s"}

TimeZoneValues == {"", "UTC"}

PathValues == {"columns", "rows"}

HeaderNames == {"X-Opaque-Id", "x-opaque-id"}

HeaderValues == {"1"}

HeaderMaps == {Nil, "X-Opaque-Id" :> <<"1">>}

\* The filter predicates (values of the Query interface) a caller attaches.
Queries == {"termA", "termB", "badX", "badY"}

\* Query.Source() of each predicate: its serializable form, or an error.
Query_Source(q) ==
    CASE q = "termA" -> [src |-> [term |-> "a"], err |-> Nil]
      [] q = "termB" -> [src |-> [term |-> "b"], err |-> Nil]
      [] q = "badX"  -> [src |-> Nil, err |-> Error("badX: cannot serialize")]
      [] q = "badY"  -> [src |-> Nil, err |-> Error("badY: cannot serialize")]

\* What client.PerformRequest may return: a transport error or a response.
PerformRequestOutcomes ==
    {[res |-> Nil, err |-> Error("connection refused")],
     [res |-> Nil, err |-> Error("context deadline exceeded")],
     [res |-> [Body |-> "{\"columns\":[{\"name\":\"a\",\"type\":\"text\"}],\"rows\":[[\"x\"]]}"],
      err |-> Nil],
     [res |-> [Body |-> "{\"rows\":[[\"y\"]],\"cursor\":\"abc123\"}"], err |-> Nil],
     [res |-> [Body |-> "{"], err |-> Nil]}

\* json.Unmarshal(res.Body, ret) into an XPackSqlQueryResponse
Unmarshal(data) ==
    CASE data = "{\"columns\":[{\"name\":\"a\",\"type\":\"text\"}],\"rows\":[[\"x\"]]}" ->
           [val |-> [Columns |-> <<[Name |-> "a", Type |-> "text"]>>,
                     Rows |-> << <<"x">> >>, Cursor |-> ""],
            err |-> Nil]
      [] data = "{\"rows\":[[\"y\"]],\"cursor\":\"abc123\"}" ->
           [val |-> [Columns |-> << >>, Rows |-> << <<"y">> >>, Cursor |-> "abc123"],
            err |-> Nil]
      [] OTHER -> [val |-> Nil, err |-> Error("unexpected end of JSON input")]

\* fmt.Sprint of a bool
Sprint(b) == IF b THEN "true" ELSE "false"

\* strings.Join
RECURSIVE Join(_, _)
Join(elems, sep) ==
    IF Len(elems) = 0 THEN ""
    ELSE IF Len(elems) = 1 THEN elems[1]
    ELSE elems[1] \o sep \o Join(Tail(elems), sep)

\* url.Values.Set
Values_Set(params, key, value) == Put(params, key, <<value>>)

\* textproto.CanonicalMIMEHeaderKey on the header names used here
CanonicalMIMEHeaderKey(name) == IF name = "x-opaque-id" THEN "X-Opaque-Id" ELSE name

\* http.Header.Add
Header_Add(h, name, value) ==
    LET key == CanonicalMIMEHeaderKey(name)
        old == IF key \in DOMAIN h THEN h[key] ELSE << >>
    IN  Put(h, key, Append(old, value))

\* The record of a call: name, argument, return value, the predicates whose
\* Source() it invoked, the requests it handed to client.PerformRequest, what
\* client.PerformRequest answered to each, and the number of json.Unmarshal
\* calls it made.
Call(op, arg, ret, srcCalls, requests, answers, decodes) ==
    [op |-> op, arg |-> arg, ret |-> ret, srcCalls |-> srcCalls,
     requests |-> requests, answers |-> answers, decodes |-> decodes]

\* a setter returns its receiver and touches no collaborator
SetterCall(op, arg) == Call(op, arg, [self |-> svc], << >>, << >>, << >>, 0)

(***************************************************************************)
(* Construction.                                                           *)
(***************************************************************************)
NewXPackSqlQueryService ==
    /\ svc = "query"
    /\ pretty = Nil /\ human = Nil /\ errorTrace = Nil
    /\ filterPath = << >> /\ headers = Nil
    /\ filterClauses = << >> /\ fetchSize = 0 /\ cursor = "" /\ sql = ""
    /\ requestTimeout = "" /\ pageTimeout = "" /\ timeZone = ""
    /\ fieldMultiValueLeniency = FALSE
    /\ last = Call("New", Nil, [self |-> "query"], << >>, << >>, << >>, 0)

NewXPackSqlTranslateService ==
    /\ svc = "translate"
    /\ pretty = Nil /\ human = Nil /\ errorTrace = Nil
    /\ filterPath = << >> /\ headers = Nil
    /\ filterClauses = << >> /\ fetchSize = 0 /\ cursor = "" /\ sql = ""
    /\ requestTimeout = "" /\ pageTimeout = "" /\ timeZone = ""
    /\ fieldMultiValueLeniency = FALSE
    /\ last = Call("New", Nil, [self |-> "translate"], << >>, << >>, << >>, 0)

Init == NewXPackSqlQueryService \/ NewXPackSqlTranslateService

(***************************************************************************)
(* XPackSqlQueryService: setters.                                          *)
(***************************************************************************)
QueryService_Pretty(v) ==
    /\ svc = "query"
    /\ pretty' = Ptr(v)
    /\ last' = SetterCall("Pretty", v)
    /\ UNCHANGED <<svc, human, errorTrace, filterPath, headers, bodyFields>>

QueryService_Human(v) ==
    /\ svc = "query"
    /\ human' = Ptr(v)
    /\ last' = SetterCall("Human", v)
    /\ UNCHANGED <<svc, pretty, errorTrace, filterPath, headers, bodyFields>>

QueryService_ErrorTrace(v) ==
    /\ svc = "query"
    /\ errorTrace' = Ptr(v)
    /\ last' = SetterCall("ErrorTrace", v)
    /\ UNCHANGED <<svc, pretty, human, filterPath, headers, bodyFields>>

QueryService_FilterPath(v) ==
    /\ svc = "query"
    /\ filterPath' = v
    /\ last' = SetterCall("FilterPath", v)
    /\ UNCHANGED <<svc, pretty, human, errorTrace, headers, bodyFields>>

QueryService_Header(name, value) ==
    /\ svc = "query"
    /\ LET h == IF headers = Nil THEN EmptyMap ELSE headers
           key == CanonicalMIMEHeaderKey(name)
       IN  /\ (key \in DOMAIN h) => Len(h[key]) < MaxHeaderVals
           /\ headers' = Header_Add(h, name, value)
    /\ last' = SetterCall("Header", <<name, value>>)
    /\ UNCHANGED <<svc, pretty, human, errorTrace, filterPath, bodyFields>>

QueryService_Headers(h) ==
    /\ svc = "query"
    /\ headers' = h
    /\ last' = SetterCall("Headers", h)
    /\ UNCHANGED <<svc, pretty, human, errorTrace, filterPath, bodyFields>>

QueryService_SQL(v) ==
    /\ svc = "query"
    /\ sql' = v
    /\ last' = SetterCall("SQL", v)
    /\ UNCHANGED <<svc, transportFields, filterClauses, fetchSize, cursor,
                   requestTimeout, pageTimeout, timeZone, fieldMultiValueLeniency>>

QueryService_Cursor(v) ==
    /\ svc = "query"
    /\ cursor' = v
    /\ last' = SetterCall("Cursor", v)
    /\ UNCHANGED <<svc, transportFields, filterClauses, fetchSize, sql,
                   requestTimeout, pageTimeout, timeZone, fieldMultiValueLeniency>>

\* Filter replacing the attached predicates instead of appending to them
QueryService_Filter_replace(filters) ==
    /\ svc = "query"
    /\ Len(filterClauses) + Len(filters) <= MaxFilters
    /\ filterClauses' = filters
    /\ last' = SetterCall("Filter", filters)
    /\ UNCHANGED <<svc, transportFields, fetchSize, cursor, sql,
                   requestTimeout, pageTimeout, timeZone, fieldMultiValueLeniency>>

QueryService_Filter(filters) ==
    /\ svc = "query"
    /\ Len(filterClauses) + Len(filters) <= MaxFilters
    /\ filterClauses' = filterClauses \o filters
    /\ last' = SetterCall("Filter", filters)
    /\ UNCHANGED <<svc, transportFields, fetchSize, cursor, sql,
                   requestTimeout, pageTimeout, timeZone, fieldMultiValueLeniency>>

QueryService_FetchSize(size) ==
    /\ svc = "query"
    /\ fetchSize' = size
    /\ last' = SetterCall("FetchSize", size)
    /\ UNCHANGED <<svc, transportFields, filterClauses, cursor, sql,
                   requestTimeout, pageTimeout, timeZone, fieldMultiValueLeniency>>

QueryService_RequestTimeout(timeout) ==
    /\ svc = "query"
    /\ requestTimeout' = timeout
    /\ last' = SetterCall("RequestTimeout", timeout)
    /\ UNCHANGED <<svc, transportFields, filterClauses, fetchSize, cursor, sql,
                   pageTimeout, timeZone, fieldMultiValueLeniency>>

QueryService_PageTimeout(timeout) ==
    /\ svc = "query"
    /\ pageTimeout' = timeout
    /\ last' = SetterCall("PageTimeout", timeout)
    /\ UNCHANGED <<svc, transportFields, filterClauses, fetchSize, cursor, sql,
                   requestTimeout, timeZone, fieldMultiValueLeniency>>

QueryService_TimeZone(zone) ==
    /\ svc = "query"
    /\ timeZone' = zone
    /\ last' = SetterCall("TimeZone", zone)
    /\ UNCHANGED <<svc, transportFields, filterClauses, fetchSize, cursor, sql,
                   requestTimeout, pageTimeout, fieldMultiValueLeniency>>

QueryService_SetFieldMultiValueLeniency(leniency) ==
    /\ svc = "query"
    /\ fieldMultiValueLeniency' = leniency
    /\ last' = SetterCall("SetFieldMultiValueLeniency", leniency)
    /\ UNCHANGED <<svc, transportFields, filterClauses, fetchSize, cursor, sql,
                   requestTimeout, pageTimeout, timeZone>>

(***************************************************************************)
(* XPackSqlQueryService: Source, buildURL, Validate, Do.                   *)
(***************************************************************************)
\* the range loop over s.filterClauses: clauses collected so far, the
\* predicates whose Source() has been called so far
RECURSIVE QueryService_rangeFilterClauses(_, _, _)
QueryService_rangeFilterClauses(i, clauses, calls) ==
    IF i > Len(filterClauses)
    THEN [clauses |-> clauses, err |-> Nil, srcCalls |-> calls]
    ELSE LET subQuery == filterClauses[i]
             r == Query_Source(subQuery)
         IN  IF r.err # Nil
             THEN [clauses |-> Nil, err |-> r.err, srcCalls |-> Append(calls, subQuery)]
             ELSE QueryService_rangeFilterClauses(i + 1, Append(clauses, r.src),
                                                  Append(calls, subQuery))

\* the filter part without the single-predicate branch: always a slice
QueryService_filter_alwaysSlice(source) ==
    IF Len(filterClauses) > 0
    THEN LET l == QueryService_rangeFilterClauses(1, << >>, << >>)
         IN  IF l.err # Nil
             THEN [body |-> Nil, err |-> l.err, srcCalls |-> l.srcCalls]
             ELSE [body |-> Put(source, "filter", Slice(l.clauses)), err |-> Nil,
                   srcCalls |-> l.srcCalls]
    ELSE [body |-> source, err |-> Nil, srcCalls |-> << >>]

\* the "// filter" part of Source, applied to the map built so far
QueryService_filter(source) ==
    IF Len(filterClauses) = 1
    THEN LET r == Query_Source(filterClauses[1])
         IN  IF r.err # Nil
             THEN [body |-> Nil, err |-> r.err, srcCalls |-> <<filterClauses[1]>>]
             ELSE [body |-> Put(source, "filter", r.src), err |-> Nil,
                   srcCalls |-> <<filterClauses[1]>>]
    ELSE IF Len(filterClauses) > 1
    THEN LET l == QueryService_rangeFilterClauses(1, << >>, << >>)
         IN  IF l.err # Nil
             THEN [body |-> Nil, err |-> l.err, srcCalls |-> l.srcCalls]
             ELSE [body |-> Put(source, "filter", Slice(l.clauses)), err |-> Nil,
                   srcCalls |-> l.srcCalls]
    ELSE [body |-> source, err |-> Nil, srcCalls |-> << >>]

\* the part of Source that puts the SQL text and the optional fields
QueryService_options ==
    LET m0 == Put(EmptyMap, "query", sql)
        m1 == IF fetchSize > 0 THEN Put(m0, "fetch_size", fetchSize) ELSE m0
        m2 == IF Len(pageTimeout) > 0 THEN Put(m1, "page_timeout", pageTimeout) ELSE m1
        m3 == IF Len(requestTimeout) > 0
              THEN Put(m2, "request_timeout", requestTimeout) ELSE m2
        m4 == IF Len(timeZone) > 0 THEN Put(m3, "time_zone", timeZone) ELSE m3
        m5 == IF fieldMultiValueLeniency
              THEN Put(m4, "field_multi_value_leniency", fieldMultiValueLeniency)
              ELSE m4
    IN  m5

\* Source() merging the cursor into the SQL body instead of returning early
QueryService_Source_merge ==
    IF Len(sql) = 0 /\ Len(cursor) = 0
    THEN [body |-> Nil, err |-> Error("query and cursor must be not both empty"),
          srcCalls |-> << >>]
    ELSE QueryService_filter(IF Len(cursor) > 0
                             THEN Put(QueryService_options, "cursor", cursor)
                             ELSE QueryService_options)

\* Source() validating only the SQL text, before looking at the cursor
QueryService_Source_sqlOnly ==
    IF Len(sql) = 0
    THEN [body |-> Nil, err |-> Error("query must be not empty"), srcCalls |-> << >>]
    ELSE IF Len(cursor) > 0
    THEN [body |-> Put(EmptyMap, "cursor", cursor), err |-> Nil, srcCalls |-> << >>]
    ELSE QueryService_filter(QueryService_options)

\* Source(): the body, the error, and the predicates whose Source() ran
QueryService_Source ==
    IF Len(cursor) > 0
    THEN [body |-> Put(EmptyMap, "cursor", cursor), err |-> Nil, srcCalls |-> << >>]
    ELSE IF Len(sql) = 0 /\ Len(cursor) = 0
    THEN [body |-> Nil, err |-> Error("query and cursor must be not both empty"),
          srcCalls |-> << >>]
    ELSE QueryService_filter(QueryService_options)

\* buildURL() setting the format first, so that nothing is left of it when
\* a filter path replaces the parameters
QueryService_buildURL_formatFirst ==
    LET p0 == Values_Set(EmptyMap, "format", "json")
        p1 == IF pretty # Nil THEN Values_Set(p0, "pretty", Sprint(pretty.ptr)) ELSE p0
        p2 == IF human # Nil THEN Values_Set(p1, "human", Sprint(human.ptr)) ELSE p1
        p3 == IF errorTrace # Nil
              THEN Values_Set(p2, "error_trace", Sprint(errorTrace.ptr)) ELSE p2
        p4 == IF Len(filterPath) > 0
              THEN Values_Set(EmptyMap, "filter_path", Join(filterPath, ",")) ELSE p3
    IN  [path |-> "/_sql", params |-> p4, err |-> Nil]

\* buildURL(): path, query-string parameters, error
QueryService_buildURL ==
    LET p0 == EmptyMap
        p1 == IF pretty # Nil THEN Values_Set(p0, "pretty", Sprint(pretty.ptr)) ELSE p0
        p2 == IF human # Nil THEN Values_Set(p1, "human", Sprint(human.ptr)) ELSE p1
        p3 == IF errorTrace # Nil
              THEN Values_Set(p2, "error_trace", Sprint(errorTrace.ptr)) ELSE p2
        p4 == IF Len(filterPath) > 0
              THEN Values_Set(p3, "filter_path", Join(filterPath, ",")) ELSE p3
        p5 == Values_Set(p4, "format", "json")
    IN  [path |-> "/_sql", params |-> p5, err |-> Nil]

QueryService_Validate == Nil

\* Do(ctx) looking at the error of Source() only after the request
QueryService_DoCall_requestFirst(outcome) ==
    LET u == QueryService_buildURL
        b == QueryService_Source
        req == [Method |-> "POST", Path |-> u.path, Params |-> u.params,
                Body |-> b.body, Headers |-> headers]
    IN  IF outcome.err # Nil
        THEN Call("Do", Nil, [res |-> Nil, err |-> outcome.err], b.srcCalls,
                  <<req>>, <<outcome>>, 0)
        ELSE IF b.err # Nil
        THEN Call("Do", Nil, [res |-> Nil, err |-> b.err], b.srcCalls,
                  <<req>>, <<outcome>>, 0)
        ELSE LET d == Unmarshal(outcome.res.Body)
             IN  IF d.err # Nil
                 THEN Call("Do", Nil, [res |-> Nil, err |-> d.err], b.srcCalls,
                           <<req>>, <<outcome>>, 1)
                 ELSE Call("Do", Nil, [res |-> d.val, err |-> Nil], b.srcCalls,
                           <<req>>, <<outcome>>, 1)

\* Do(ctx), given what client.PerformRequest answers if it is called
QueryService_DoCall(outcome) ==
    LET u == QueryService_buildURL
        b == QueryService_Source
        req == [Method |-> "POST", Path |-> u.path, Params |-> u.params,
                Body |-> b.body, Headers |-> headers]
    IN  IF QueryService_Validate # Nil
        THEN Call("Do", Nil, [res |-> Nil, err |-> QueryService_Validate], << >>, << >>, << >>, 0)
        ELSE IF u.err # Nil
        THEN Call("Do", Nil, [res |-> Nil, err |-> u.err], << >>, << >>, << >>, 0)
        ELSE IF b.err # Nil
        THEN Call("Do", Nil, [res |-> Nil, err |-> b.err], b.srcCalls, << >>, << >>, 0)
        ELSE IF outcome.err # Nil
        THEN Call("Do", Nil, [res |-> Nil, err |-> outcome.err], b.srcCalls, <<req>>, <<outcome>>, 0)
        ELSE LET d == Unmarshal(outcome.res.Body)
             IN  IF d.err # Nil
                 THEN Call("Do", Nil, [res |-> Nil, err |-> d.err], b.srcCalls, <<req>>, <<outcome>>, 1)
                 ELSE Call("Do", Nil, [res |-> d.val, err |-> Nil], b.srcCalls, <<req>>, <<outcome>>, 1)

QueryService_CallSource ==
    /\ svc = "query"
    /\ LET r == QueryService_Source
       IN  last' = Call("Source", Nil, [body |-> r.body, err |-> r.err], r.srcCalls, << >>, << >>, 0)
    /\ UNCHANGED fields

QueryService_CallBuildURL ==
    /\ svc = "query"
    /\ last' = Call("buildURL", Nil, QueryService_buildURL, << >>, << >>, << >>, 0)
    /\ UNCHANGED fields

QueryService_Do ==
    /\ svc = "query"
    /\ \E outcome \in PerformRequestOutcomes : last' = QueryService_DoCall(outcome)
    /\ UNCHANGED fields

(***************************************************************************)
(* XPackSqlTranslateService: setters.                                      *)
(***************************************************************************)
TranslateService_Pretty(v) ==
    /\ svc = "translate"
    /\ pretty' = Ptr(v)
    /\ last' = SetterCall("Pretty", v)
    /\ UNCHANGED <<svc, human, errorTrace, filterPath, headers, bodyFields>>

TranslateService_Human(v) ==
    /\ svc = "translate"
    /\ human' = Ptr(v)
    /\ last' = SetterCall("Human", v)
    /\ UNCHANGED <<svc, pretty, errorTrace, filterPath, headers, bodyFields>>

TranslateService_ErrorTrace(v) ==
    /\ svc = "translate"
    /\ errorTrace' = Ptr(v)
    /\ last' = SetterCall("ErrorTrace", v)
    /\ UNCHANGED <<svc, pretty, human, filterPath, headers, bodyFields>>

TranslateService_FilterPath(v) ==
    /\ svc = "translate"
    /\ filterPath' = v
    /\ last' = SetterCall("FilterPath", v)
    /\ UNCHANGED <<svc, pretty, human, errorTrace, headers, bodyFields>>

TranslateService_Header(name, value) ==
    /\ svc = "translate"
    /\ LET h == IF headers = Nil THEN EmptyMap ELSE headers
           key == CanonicalMIMEHeaderKey(name)
       IN  /\ (key \in DOMAIN h) => Len(h[key]) < MaxHeaderVals
           /\ headers' = Header_Add(h, name, value)
    /\ last' = SetterCall("Header", <<name, value>>)
    /\ UNCHANGED <<svc, pretty, human, errorTrace, filterPath, bodyFields>>

TranslateService_Headers(h) ==
    /\ svc = "translate"
    /\ headers' = h
    /\ last' = SetterCall("Headers", h)
    /\ UNCHANGED <<svc, pretty, human, errorTrace, filterPath, bodyFields>>

TranslateService_SQL(v) ==
    /\ svc = "translate"
    /\ sql' = v
    /\ last' = SetterCall("SQL", v)
    /\ UNCHANGED <<svc, transportFields, filterClauses, fetchSize, cursor,
                   requestTimeout, pageTimeout, timeZone, fieldMultiValueLeniency>>

TranslateService_Filter(filters) ==
    /\ svc = "translate"
    /\ Len(filterClauses) + Len(filters) <= MaxFilters
    /\ filterClauses' = filterClauses \o filters
    /\ last' = SetterCall("Filter", filters)
    /\ UNCHANGED <<svc, transportFields, fetchSize, cursor, sql,
                   requestTimeout, pageTimeout, timeZone, fieldMultiValueLeniency>>

TranslateService_FetchSize(size) ==
    /\ svc = "translate"
    /\ fetchSize' = size
    /\ last' = SetterCall("FetchSize", size)
    /\ UNCHANGED <<svc, transportFields, filterClauses, cursor, sql,
                   requestTimeout, pageTimeout, timeZone, fieldMultiValueLeniency>>

TranslateService_RequestTimeout(timeout) ==
    /\ svc = "translate"
    /\ requestTimeout' = timeout
    /\ last' = SetterCall("RequestTimeout", timeout)
    /\ UNCHANGED <<svc, transportFields, filterClauses, fetchSize, cursor, sql,
                   pageTimeout, timeZone, fieldMultiValueLeniency>>

TranslateService_PageTimeout(timeout) ==
    /\ svc = "translate"
    /\ pageTimeout' = timeout
    /\ last' = SetterCall("PageTimeout", timeout)
    /\ UNCHANGED <<svc, transportFields, filterClauses, fetchSize, cursor, sql,
                   requestTimeout, timeZone, fieldMultiValueLeniency>>

TranslateService_TimeZone(zone) ==
    /\ svc = "translate"
    /\ timeZone' = zone
    /\ last' = SetterCall("TimeZone", zone)
    /\ UNCHANGED <<svc, transportFields, filterClauses, fetchSize, cursor, sql,
                   requestTimeout, pageTimeout, fieldMultiValueLeniency>>

TranslateService_SetFieldMultiValueLeniency(leniency) ==
    /\ svc = "translate"
    /\ fieldMultiValueLeniency' = leniency
    /\ last' = SetterCall("SetFieldMultiValueLeniency", leniency)
    /\ UNCHANGED <<svc, transportFields, filterClauses, fetchSize, cursor, sql,
                   requestTimeout, pageTimeout, timeZone>>

(***************************************************************************)
(* XPackSqlTranslateService: Source, buildURL, Validate, Do.               *)
(***************************************************************************)
\* the range loop remembering an error but going on to the next predicate
RECURSIVE TranslateService_rangeFilterClauses_goOn(_, _, _, _)
TranslateService_rangeFilterClauses_goOn(i, clauses, calls, err) ==
    IF i > Len(filterClauses)
    THEN [clauses |-> IF err = Nil THEN clauses ELSE Nil, err |-> err, srcCalls |-> calls]
    ELSE LET subQuery == filterClauses[i]
             r == Query_Source(subQuery)
         IN  IF r.err # Nil
             THEN TranslateService_rangeFilterClauses_goOn(i + 1, clauses,
                                                           Append(calls, subQuery), r.err)
             ELSE TranslateService_rangeFilterClauses_goOn(i + 1, Append(clauses, r.src),
                                                           Append(calls, subQuery), err)

TranslateService_rangeFilterClauses_lastError(i, clauses, calls) ==
    TranslateService_rangeFilterClauses_goOn(i, clauses, calls, Nil)

\* the range loop over s.filterClauses: clauses collected so far, the
\* predicates whose Source() has been called so far
RECURSIVE TranslateService_rangeFilterClauses(_, _, _)
TranslateService_rangeFilterClauses(i, clauses, calls) ==
    IF i > Len(filterClauses)
    THEN [clauses |-> clauses, err |-> Nil, srcCalls |-> calls]
    ELSE LET subQuery == filterClauses[i]
             r == Query_Source(subQuery)
         IN  IF r.err # Nil
             THEN [clauses |-> Nil, err |-> r.err, srcCalls |-> Append(calls, subQuery)]
             ELSE TranslateService_rangeFilterClauses(i + 1, Append(clauses, r.src),
                                                  Append(calls, subQuery))

\* the "// filter" part of Source, applied to the map built so far
TranslateService_filter(source) ==
    IF Len(filterClauses) = 1
    THEN LET r == Query_Source(filterClauses[1])
         IN  IF r.err # Nil
             THEN [body |-> Nil, err |-> r.err, srcCalls |-> <<filterClauses[1]>>]
             ELSE [body |-> Put(source, "filter", r.src), err |-> Nil,
                   srcCalls |-> <<filterClauses[1]>>]
    ELSE IF Len(filterClauses) > 1
    THEN LET l == TranslateService_rangeFilterClauses(1, << >>, << >>)
         IN  IF l.err # Nil
             THEN [body |-> Nil, err |-> l.err, srcCalls |-> l.srcCalls]
             ELSE [body |-> Put(source, "filter", Slice(l.clauses)), err |-> Nil,
                   srcCalls |-> l.srcCalls]
    ELSE [body |-> source, err |-> Nil, srcCalls |-> << >>]

\* the optional fields with page_timeout stored under request_timeout's key
TranslateService_options_swapped ==
    LET m0 == Put(EmptyMap, "query", sql)
        m1 == IF fetchSize > 0 THEN Put(m0, "fetch_size", fetchSize) ELSE m0
        m2 == IF Len(pageTimeout) > 0 THEN Put(m1, "request_timeout", pageTimeout) ELSE m1
        m3 == IF Len(requestTimeout) > 0
              THEN Put(m2, "request_timeout", requestTimeout) ELSE m2
        m4 == IF Len(timeZone) > 0 THEN Put(m3, "time_zone", timeZone) ELSE m3
        m5 == IF fieldMultiValueLeniency
              THEN Put(m4, "field_multi_value_leniency", fieldMultiValueLeniency)
              ELSE m4
    IN  m5

\* the part of Source that puts the SQL text and the optional fields
TranslateService_options ==
    LET m0 == Put(EmptyMap, "query", sql)
        m1 == IF fetchSize > 0 THEN Put(m0, "fetch_size", fetchSize) ELSE m0
        m2 == IF Len(pageTimeout) > 0 THEN Put(m1, "page_timeout", pageTimeout) ELSE m1
        m3 == IF Len(requestTimeout) > 0
              THEN Put(m2, "request_timeout", requestTimeout) ELSE m2
        m4 == IF Len(timeZone) > 0 THEN Put(m3, "time_zone", timeZone) ELSE m3
        m5 == IF fieldMultiValueLeniency
              THEN Put(m4, "field_multi_value_leniency", fieldMultiValueLeniency)
              ELSE m4
    IN  m5

\* Source() without the check of the SQL text
TranslateService_Source_unchecked == TranslateService_filter(TranslateService_options)

\* Source(): the body, the error, and the predicates whose Source() ran
TranslateService_Source ==
    IF Len(sql) = 0
    THEN [body |-> Nil, err |-> Error("query must be not empty"), srcCalls |-> << >>]
    ELSE TranslateService_filter(TranslateService_options)

\* buildURL(): path, query-string parameters, error
TranslateService_buildURL ==
    LET p0 == EmptyMap
        p1 == IF pretty # Nil THEN Values_Set(p0, "pretty", Sprint(pretty.ptr)) ELSE p0
        p2 == IF human # Nil THEN Values_Set(p1, "human", Sprint(human.ptr)) ELSE p1
        p3 == IF errorTrace # Nil
              THEN Values_Set(p2, "error_trace", Sprint(errorTrace.ptr)) ELSE p2
        p4 == IF Len(filterPath) > 0
              THEN Values_Set(p3, "filter_path", Join(filterPath, ",")) ELSE p3
    IN  [path |-> "/_sql/translate", params |-> p4, err |-> Nil]

TranslateService_Validate == Nil

\* Do(ctx) wrapping the transport error in an error of its own
TranslateService_DoCall_wrapped(outcome) ==
    LET u == TranslateService_buildURL
        b == TranslateService_Source
        req == [Method |-> "POST", Path |-> u.path, Params |-> u.params,
                Body |-> b.body, Headers |-> headers]
    IN  IF b.err # Nil
        THEN Call("Do", Nil, [res |-> "", err |-> b.err], b.srcCalls, << >>, << >>, 0)
        ELSE IF outcome.err # Nil
        THEN Call("Do", Nil,
                  [res |-> "", err |-> Error("elastic: " \o outcome.err.error)],
                  b.srcCalls, <<req>>, <<outcome>>, 0)
        ELSE Call("Do", Nil, [res |-> outcome.res.Body, err |-> Nil], b.srcCalls,
                  <<req>>, <<outcome>>, 0)

\* Do(ctx), given what client.PerformRequest answers if it is called;
\* the result is a string, "" with every error
TranslateService_DoCall(outcome) ==
    LET u == TranslateService_buildURL
        b == TranslateService_Source
        req == [Method |-> "POST", Path |-> u.path, Params |-> u.params,
                Body |-> b.body, Headers |-> headers]
    IN  IF TranslateService_Validate # Nil
        THEN Call("Do", Nil, [res |-> "", err |-> TranslateService_Validate], << >>, << >>, << >>, 0)
        ELSE IF u.err # Nil
        THEN Call("Do", Nil, [res |-> "", err |-> u.err], << >>, << >>, << >>, 0)
        ELSE IF b.err # Nil
        THEN Call("Do", Nil, [res |-> "", err |-> b.err], b.srcCalls, << >>, << >>, 0)
        ELSE IF outcome.err # Nil
        THEN Call("Do", Nil, [res |-> "", err |-> outcome.err], b.srcCalls, <<req>>, <<outcome>>, 0)
        ELSE Call("Do", Nil, [res |-> outcome.res.Body, err |-> Nil], b.srcCalls, <<req>>, <<outcome>>, 0)

TranslateService_CallSource ==
    /\ svc = "translate"
    /\ LET r == TranslateService_Source
       IN  last' = Call("Source", Nil, [body |-> r.body, err |-> r.err], r.srcCalls, << >>, << >>, 0)
    /\ UNCHANGED fields

TranslateService_CallBuildURL ==
    /\ svc = "translate"
    /\ last' = Call("buildURL", Nil, TranslateService_buildURL, << >>, << >>, << >>, 0)
    /\ UNCHANGED fields

TranslateService_Do ==
    /\ svc = "translate"
    /\ \E outcome \in PerformRequestOutcomes : last' = TranslateService_DoCall(outcome)
    /\ UNCHANGED fields

(***************************************************************************)
(* Specifications.                                                         *)
(*                                                                         *)
(* Spec: a fresh builder, then any sequence of body-level setter calls and *)
(* of Source / buildURL / Do calls (the transport options stay as          *)
(* constructed).                                                           *)
(*                                                                         *)
(* SpecURL: a builder whose body-level fields have already been set to one *)
(* of BodyProfiles, then any sequence of transport-level setter calls and  *)
(* of Source / buildURL / Do calls.                                        *)
(***************************************************************************)
FilterArgs == SeqUpTo(Queries, MaxFilters)

FilterPathArgs == SeqUpTo(PathValues, MaxPath)

QueryService_BodySetters ==
    \/ \E v \in SqlValues : QueryService_SQL(v)
    \/ \E v \in CursorValues : QueryService_Cursor(v)
    \/ \E filters \in FilterArgs : QueryService_Filter(filters)
    \/ \E size \in FetchSizeValues : QueryService_FetchSize(size)
    \/ \E timeout \in TimeoutValues : QueryService_RequestTimeout(timeout)
    \/ \E timeout \in TimeoutValues : QueryService_PageTimeout(timeout)
    \/ \E zone \in TimeZoneValues : QueryService_TimeZone(zone)
    \/ \E leniency \in BOOLEAN : QueryService_SetFieldMultiValueLeniency(leniency)

TranslateService_BodySetters ==
    \/ \E v \in SqlValues : TranslateService_SQL(v)
    \/ \E filters \in FilterArgs : TranslateService_Filter(filters)
    \/ \E size \in FetchSizeValues : TranslateService_FetchSize(size)
    \/ \E timeout \in TimeoutValues : TranslateService_RequestTimeout(timeout)
    \/ \E timeout \in TimeoutValues : TranslateService_PageTimeout(timeout)
    \/ \E zone \in TimeZoneValues : TranslateService_TimeZone(zone)
    \/ \E leniency \in BOOLEAN : TranslateService_SetFieldMultiValueLeniency(leniency)

QueryService_TransportSetters ==
    \/ \E v \in BOOLEAN : QueryService_Pretty(v)
    \/ \E v \in BOOLEAN : QueryService_Human(v)
    \/ \E v \in BOOLEAN : QueryService_ErrorTrace(v)
    \/ \E v \in FilterPathArgs : QueryService_FilterPath(v)
    \/ \E name \in HeaderNames, value \in HeaderValues : QueryService_Header(name, value)
    \/ \E h \in HeaderMaps : QueryService_Headers(h)

TranslateService_TransportSetters ==
    \/ \E v \in BOOLEAN : TranslateService_Pretty(v)
    \/ \E v \in BOOLEAN : TranslateService_Human(v)
    \/ \E v \in BOOLEAN : TranslateService_ErrorTrace(v)
    \/ \E v \in FilterPathArgs : TranslateService_FilterPath(v)
    \/ \E name \in HeaderNames, value \in HeaderValues : TranslateService_Header(name, value)
    \/ \E h \in HeaderMaps : TranslateService_Headers(h)

Calls ==
    \/ QueryService_CallSource
    \/ QueryService_CallBuildURL
    \/ QueryService_Do
    \/ TranslateService_CallSource
    \/ TranslateService_CallBuildURL
    \/ TranslateService_Do

Next ==
    \/ QueryService_BodySetters
    \/ TranslateService_BodySetters
    \/ Calls

Spec == Init /\ [][Next]_vars

\* Body-level configurations a builder can have been given by its setters:
\* with or without SQL, with or without a cursor, and the optional fields
\* and filters either all left alone or all set.
BodyProfiles ==
    {[sql |-> q, cursor |-> c, fetchSize |-> IF full THEN 5 ELSE 0,
      requestTimeout |-> IF full THEN "90s" ELSE "",
      pageTimeout |-> IF full THEN "90s" ELSE "",
      timeZone |-> IF full THEN "UTC" ELSE "",
      fieldMultiValueLeniency |-> full,
      filterClauses |-> IF full THEN <<"termA", "termB">> ELSE << >>] :
        q \in SqlValues, c \in CursorValues, full \in BOOLEAN}

InitURL ==
    /\ svc \in {"query", "translate"}
    /\ pretty = Nil /\ human = Nil /\ errorTrace = Nil
    /\ filterPath = << >> /\ headers = Nil
    /\ \E b \in BodyProfiles :
          /\ svc = "translate" => b.cursor = ""
          /\ sql = b.sql /\ cursor = b.cursor /\ fetchSize = b.fetchSize
          /\ requestTimeout = b.requestTimeout /\ pageTimeout = b.pageTimeout
          /\ timeZone = b.timeZone
          /\ fieldMultiValueLeniency = b.fieldMultiValueLeniency
          /\ filterClauses = b.filterClauses
    /\ last = Call("New", Nil, [self |-> svc], << >>, << >>, << >>, 0)

NextURL ==
    \/ QueryService_TransportSetters
    \/ TranslateService_TransportSetters
    \/ Calls

SpecURL == InitURL /\ [][NextURL]_vars

(***************************************************************************)
(* Properties.                                                             *)
(***************************************************************************)
\* the last call was Source() on the query builder / the translate builder
QuerySourceReturned == svc = "query" /\ last.op = "Source"

TranslateSourceReturned == svc = "translate" /\ last.op = "Source"

\* Source() returned the SQL body (not the cursor body, not an error)
SqlBodyBuilt ==
    /\ last.op = "Source"
    /\ last.ret.err = Nil
    /\ svc = "query" => cursor = ""

\* index of the first attached predicate whose Source() fails, 0 if none
FirstFailing ==
    IF \E i \in 1..Len(filterClauses) : Query_Source(filterClauses[i]).err # Nil
    THEN CHOOSE i \in 1..Len(filterClauses) :
            /\ Query_Source(filterClauses[i]).err # Nil
            /\ \A j \in 1..(i - 1) : Query_Source(filterClauses[j]).err = Nil
    ELSE 0

\* C1: query builder, cursor non-empty: Source succeeds with a body whose
\* only key is "cursor", holding the configured cursor; nothing else is
\* serialized and no attached filter's Source() is even called.
C1_CursorOnlyBody ==
    (QuerySourceReturned /\ cursor # "") =>
        /\ last.ret.err = Nil
        /\ DOMAIN last.ret.body = {"cursor"}
        /\ last.ret.body["cursor"] = cursor
        /\ last.srcCalls = << >>

\* C1 witness: a cursor body built although SQL, fetch size, leniency and
\* a failing filter are all set
C1_Witness ==
    /\ QuerySourceReturned /\ last.ret.err = Nil
    /\ cursor = "abc123" /\ sql # "" /\ fetchSize = 5 /\ timeZone # ""
    /\ fieldMultiValueLeniency
    /\ Len(filterClauses) > 0 /\ Query_Source(filterClauses[1]).err # Nil

\* C2 as stated: query builder, cursor and SQL both empty: Source returns
\* no body and the error "query and cursor must not both be empty".
C2_AsStated ==
    (QuerySourceReturned /\ cursor = "" /\ sql = "") =>
        /\ last.ret.body = Nil
        /\ last.ret.err = Error("query and cursor must not both be empty")

\* C2 amended: query builder, cursor and SQL both empty: Source returns no
\* body and the error "query and cursor must be not both empty", whatever
\* the other fields and filters are (no filter's Source() is called).
C2_BothEmptyError ==
    (QuerySourceReturned /\ cursor = "" /\ sql = "") =>
        /\ last.ret.body = Nil
        /\ last.ret.err = Error("query and cursor must be not both empty")
        /\ last.srcCalls = << >>

\* C2 witness: the validation error with other fields and a filter set
C2_Witness ==
    /\ QuerySourceReturned /\ cursor = "" /\ sql = ""
    /\ last.ret.err # Nil
    /\ fetchSize = 5 /\ pageTimeout # "" /\ Len(filterClauses) = 2

\* C3 as stated: translate builder: empty SQL gives no body and the error
\* "query must not be empty"; non-empty SQL with no failing filter gives a
\* body whose "query" is the SQL text.
C3_AsStated ==
    TranslateSourceReturned =>
        /\ sql = "" => /\ last.ret.body = Nil
                       /\ last.ret.err = Error("query must not be empty")
        /\ (sql # "" /\ FirstFailing = 0) =>
                       /\ last.ret.err = Nil
                       /\ "query" \in DOMAIN last.ret.body
                       /\ last.ret.body["query"] = sql

\* C3 amended: translate builder: empty SQL gives no body and the error
\* "query must be not empty", with no fallback; non-empty SQL with no
\* failing filter gives a body whose "query" is the SQL text.
C3_TranslateQueryMandatory ==
    TranslateSourceReturned =>
        /\ sql = "" => /\ last.ret.body = Nil
                       /\ last.ret.err = Error("query must be not empty")
                       /\ last.srcCalls = << >>
        /\ (sql # "" /\ FirstFailing = 0) =>
                       /\ last.ret.err = Nil
                       /\ "query" \in DOMAIN last.ret.body
                       /\ last.ret.body["query"] = sql

\* C3 witness: the translate validation error with other fields set
C3_Witness ==
    /\ TranslateSourceReturned /\ sql = "" /\ last.ret.err # Nil
    /\ fetchSize = 5 /\ fieldMultiValueLeniency /\ Len(filterClauses) = 1

\* presence and value of one optional key of a body
Sparse(body, key, present, value) ==
    /\ (key \in DOMAIN body) <=> present
    /\ (key \in DOMAIN body) => body[key] = value

\* the string and flag keys of the SQL body, as C4 states them
SparseStrings(body) ==
    /\ Sparse(body, "page_timeout", pageTimeout # "", pageTimeout)
    /\ Sparse(body, "request_timeout", requestTimeout # "", requestTimeout)
    /\ Sparse(body, "time_zone", timeZone # "", timeZone)
    /\ Sparse(body, "field_multi_value_leniency", fieldMultiValueLeniency,
              fieldMultiValueLeniency)

\* C4 as stated: in the SQL body of either builder, fetch_size is present
\* iff the fetch size is any non-zero integer; page_timeout, request_timeout
\* and time_zone iff the string is non-empty; field_multi_value_leniency iff
\* the flag is true; each present key carries the configured value.
C4_AsStated ==
    SqlBodyBuilt =>
        /\ Sparse(last.ret.body, "fetch_size", fetchSize # 0, fetchSize)
        /\ SparseStrings(last.ret.body)

\* C4 amended: as stated, except that fetch_size is present iff the fetch
\* size is positive (a negative fetch size is omitted like zero).
C4_SparseBody ==
    SqlBodyBuilt =>
        /\ Sparse(last.ret.body, "fetch_size", fetchSize > 0, fetchSize)
        /\ SparseStrings(last.ret.body)

\* C4 witness: an SQL body with some optional fields set and some not
C4_Witness ==
    /\ SqlBodyBuilt
    /\ fetchSize = 5 /\ pageTimeout = "90s" /\ requestTimeout = ""
    /\ timeZone = "UTC" /\ ~fieldMultiValueLeniency
    /\ DOMAIN last.ret.body = {"query", "fetch_size", "page_timeout", "time_zone"}

\* C5: in the SQL body of either builder (so no predicate failed): no
\* "filter" key with zero predicates; with one, "filter" is that predicate's
\* own Source() form, not a slice; with two or more, "filter" is the slice
\* of the predicates' forms, same length, attachment order.
C5_FilterArity ==
    SqlBodyBuilt =>
        LET n == Len(filterClauses)
            body == last.ret.body
        IN  /\ n = 0 => "filter" \notin DOMAIN body
            /\ n = 1 => /\ "filter" \in DOMAIN body
                        /\ body["filter"] = Query_Source(filterClauses[1]).src
            /\ n > 1 => /\ "filter" \in DOMAIN body
                        /\ DOMAIN body["filter"] = {"slice"}
                        /\ Len(body["filter"].slice) = n
                        /\ \A i \in 1..n :
                              body["filter"].slice[i] = Query_Source(filterClauses[i]).src

\* C5 witness: two different predicates serialized in attachment order
C5_Witness ==
    /\ SqlBodyBuilt /\ svc = "translate"
    /\ filterClauses = <<"termB", "termA">>
    /\ last.ret.body["filter"] = Slice(<<[term |-> "b"], [term |-> "a"]>>)

\* the SQL body is being built: past the cursor and validation checks
SqlBodyAttempted ==
    /\ last.op = "Source"
    /\ sql # ""
    /\ svc = "query" => cursor = ""

\* C9: while the SQL body of either builder is built, predicates are
\* serialized in attachment order; at the first whose Source() fails the
\* build returns that predicate's error and no body, and Source() is not
\* called on any predicate attached after it.
C9_FirstFailingPredicate ==
    SqlBodyAttempted =>
        LET k == FirstFailing
        IN  /\ k = 0 => /\ last.ret.err = Nil
                        /\ last.srcCalls = filterClauses
            /\ k > 0 => /\ last.ret.body = Nil
                        /\ last.ret.err = Query_Source(filterClauses[k]).err
                        /\ last.srcCalls = SubSeq(filterClauses, 1, k)

\* C9 witness: two failing predicates attached, only the first one asked
C9_Witness ==
    /\ SqlBodyAttempted
    /\ filterClauses = <<"badY", "badX">>
    /\ last.srcCalls = <<"badY">>
    /\ last.ret.err = Error("badY: cannot serialize")

\* the query-string keys buildURL must produce for the transport options
ExpectedKeys ==
    {"format"}
    \cup (IF pretty # Nil THEN {"pretty"} ELSE {})
    \cup (IF human # Nil THEN {"human"} ELSE {})
    \cup (IF errorTrace # Nil THEN {"error_trace"} ELSE {})
    \cup (IF filterPath # << >> THEN {"filter_path"} ELSE {})

\* C6: query builder buildURL: the path is "/_sql"; the parameters always
\* hold format=json; the only other keys are pretty, human, error_trace and
\* filter_path, each present exactly when its setter supplied a value
\* (filter_path when the list is non-empty, comma-joined); the body-level
\* fields change neither the path nor the parameters.
C6_QueryURL ==
    (svc = "query" /\ last.op = "buildURL") =>
        LET params == last.ret.params
        IN  /\ last.ret.path = "/_sql"
            /\ last.ret.err = Nil
            /\ DOMAIN params = ExpectedKeys
            /\ params["format"] = <<"json">>
            /\ pretty # Nil => params["pretty"] = <<Sprint(pretty.ptr)>>
            /\ human # Nil => params["human"] = <<Sprint(human.ptr)>>
            /\ errorTrace # Nil => params["error_trace"] = <<Sprint(errorTrace.ptr)>>
            /\ filterPath # << >> => params["filter_path"] = <<Join(filterPath, ",")>>
            /\ filterPath = <<"rows", "columns">> =>
                  params["filter_path"] = <<"rows,columns">>

\* C6 witness: the URL built with every body-level field set, a cursor
\* included, and some transport options set
C6_Witness ==
    /\ svc = "query" /\ last.op = "buildURL"
    /\ cursor # "" /\ sql # "" /\ fetchSize = 5 /\ Len(filterClauses) = 2
    /\ pretty = Ptr(FALSE) /\ human = Nil /\ errorTrace = Ptr(TRUE)
    /\ filterPath = <<"rows", "columns">>
    /\ last.ret.params = [pretty |-> <<"false">>, error_trace |-> <<"true">>,
                          filter_path |-> <<"rows,columns">>, format |-> <<"json">>]

\* the mandatory fields are missing
MandatoryMissing ==
    IF svc = "query" THEN sql = "" /\ cursor = "" ELSE sql = ""

\* the validation error Source() gives for the builder at hand
ValidationError ==
    IF svc = "query" THEN Error("query and cursor must be not both empty")
    ELSE Error("query must be not empty")

\* Do returned no response value: nil for query, "" for translate
NoResponse == IF svc = "query" THEN last.ret.res = Nil ELSE last.ret.res = ""

\* C7: Do of either builder with the mandatory fields missing returns the
\* validation error and no result without ever calling
\* client.PerformRequest; every Do calls client.PerformRequest at most once.
C7_ValidateBeforeRequest ==
    last.op = "Do" =>
        /\ Len(last.requests) <= 1
        /\ MandatoryMissing => /\ last.requests = << >>
                               /\ last.ret.err = ValidationError
                               /\ NoResponse

\* C7 witness: Do on a query builder with neither SQL nor cursor, other
\* fields set
C7_Witness ==
    /\ last.op = "Do" /\ svc = "query" /\ MandatoryMissing
    /\ fetchSize = 5 /\ Len(filterClauses) = 1
    /\ last.ret.err # Nil /\ last.requests = << >>

\* C8: when client.PerformRequest answers with an error, Do returns exactly
\* that error and no response value, decodes nothing and sends nothing more.
C8_TransportErrorUnchanged ==
    (last.op = "Do" /\ last.answers # << >> /\ last.answers[1].err # Nil) =>
        /\ last.ret.err = last.answers[1].err
        /\ NoResponse
        /\ last.decodes = 0
        /\ Len(last.requests) = 1

\* C8 witness: a translate Do whose one request failed in transport
C8_Witness ==
    /\ last.op = "Do" /\ svc = "translate"
    /\ Len(last.requests) = 1
    /\ last.requests[1].Path = "/_sql/translate"
    /\ last.answers = <<[res |-> Nil, err |-> Error("connection refused")]>>
    /\ last.ret = [res |-> "", err |-> Error("connection refused")]

\* C10: every scalar body setter overwrites its own field with its argument
\* and nothing else; Filter appends its arguments to the attached list and
\* changes nothing else; Source and buildURL change no field, and two
\* Source calls in a row return the same thing.
C10_SetterFrames ==
    [][ LET op == last'.op
            arg == last'.arg
        IN  /\ op = "SQL" =>
                 /\ sql' = arg
                 /\ UNCHANGED <<svc, transportFields, filterClauses, fetchSize, cursor,
                                requestTimeout, pageTimeout, timeZone,
                                fieldMultiValueLeniency>>
            /\ op = "Cursor" =>
                 /\ cursor' = arg
                 /\ UNCHANGED <<svc, transportFields, filterClauses, fetchSize, sql,
                                requestTimeout, pageTimeout, timeZone,
                                fieldMultiValueLeniency>>
            /\ op = "FetchSize" =>
                 /\ fetchSize' = arg
                 /\ UNCHANGED <<svc, transportFields, filterClauses, cursor, sql,
                                requestTimeout, pageTimeout, timeZone,
                                fieldMultiValueLeniency>>
            /\ op = "RequestTimeout" =>
                 /\ requestTimeout' = arg
                 /\ UNCHANGED <<svc, transportFields, filterClauses, fetchSize, cursor,
                                sql, pageTimeout, timeZone, fieldMultiValueLeniency>>
            /\ op = "PageTimeout" =>
                 /\ pageTimeout' = arg
                 /\ UNCHANGED <<svc, transportFields, filterClauses, fetchSize, cursor,
                                sql, requestTimeout, timeZone, fieldMultiValueLeniency>>
            /\ op = "TimeZone" =>
                 /\ timeZone' = arg
                 /\ UNCHANGED <<svc, transportFields, filterClauses, fetchSize, cursor,
                                sql, requestTimeout, pageTimeout, fieldMultiValueLeniency>>
            /\ op = "SetFieldMultiValueLeniency" =>
                 /\ fieldMultiValueLeniency' = arg
                 /\ UNCHANGED <<svc, transportFields, filterClauses, fetchSize, cursor,
                                sql, requestTimeout, pageTimeout, timeZone>>
            /\ op = "Filter" =>
                 /\ filterClauses' = filterClauses \o arg
                 /\ UNCHANGED <<svc, transportFields, fetchSize, cursor, sql,
                                requestTimeout, pageTimeout, timeZone,
                                fieldMultiValueLeniency>>
            /\ op \in {"Source", "buildURL"} => UNCHANGED fields
            /\ (op = "Source" /\ last.op = "Source") => last'.ret = last.ret
      ]_vars

\* C10 witness: a second Filter call has appended to the predicates of the
\* first, and a FetchSize(0) has undone an earlier FetchSize
C10_Witness ==
    /\ last.op = "Filter" /\ last.arg = <<"termA">>
    /\ filterClauses = <<"termB", "termA">>
    /\ sql # "" /\ fetchSize = 0 /\ timeZone # ""

====
